---- MODULE Spec2Model ----
(***************************************************************************)
(* Model of the chat client's streaming consumer (handleSendMessage of the *)
(* ChatInterface component), of the values it handles, and of the two      *)
(* route handlers (POST of the OpenAI and of the Gemini route) with the    *)
(* ReadableStream each of them produces.  Spec is the client served by an  *)
(* arbitrary backend; RouteSpec is one route handler serving one request.  *)
(*                                                                         *)
(* Text is a sequence of units.  A unit is one character, except that the  *)
(* member text "error":"X" (ErrX) and "error":"" (ErrEmpty) of a JSON      *)
(* object are each one unit.  The body stream carries bytes; a byte is the *)
(* unit itself for ASCII text, and LeadByte/ContByte are the two bytes of  *)
(* the two-byte UTF-8 character EAcute.  Chunk boundaries fall between     *)
(* units, also between LeadByte and ContByte.                              *)
(*                                                                         *)
(* A Message is a record with the fields of the interface Message plus id, *)
(* the identity of the JavaScript object (what === compares).              *)
(***************************************************************************)
EXTENDS Integers, Sequences, FiniteSets, TLC

\* ------------------------------------------------------------------ bounds
\* Number of input events of a run: every send with non-blank input, every
\* model change and every byte delivered by a body stream counts as one.
MaxEvents == 5

\* ------------------------------------------------------------- text units
Ws == " "
ErrX == "'error':'X'"
ErrEmpty == "'error':''"
NullLit == "null"
Digit == "1"
LeadByte == "0xC3"
ContByte == "0xA9"
EAcute == "U+00E9"
Replacement == "U+FFFD"

\* The bytes a body stream is made of.
Bytes == {Digit, Ws, "{", "}", ErrX, LeadByte, ContByte}

Models == {"openai", "gemini"}

\* ------------------------------------------------------------ TextDecoder
\* decoder.decode(value, {stream: true}): the UTF-8 decoder keeps an
\* incomplete sequence (a lead byte) pending between calls; a byte that
\* cannot continue or start a sequence decodes to U+FFFD.
RECURSIVE DecodeFrom(_, _, _)
DecodeFrom(bytes, pending, out) ==
  IF bytes = <<>> THEN [text |-> out, pending |-> pending]
  ELSE IF pending
       THEN IF Head(bytes) = ContByte
            THEN DecodeFrom(Tail(bytes), FALSE, Append(out, EAcute))
            ELSE DecodeFrom(bytes, FALSE, Append(out, Replacement))
       ELSE IF Head(bytes) = LeadByte
            THEN DecodeFrom(Tail(bytes), TRUE, out)
            ELSE IF Head(bytes) = ContByte
                 THEN DecodeFrom(Tail(bytes), FALSE, Append(out, Replacement))
                 ELSE DecodeFrom(Tail(bytes), FALSE, Append(out, Head(bytes)))

DecodeStream(bytes, pending) == DecodeFrom(bytes, pending, <<>>)

\* A flush that emits U+FFFD whether or not a sequence is pending.
DecodeFlushAlways(pending) == <<Replacement>>

\* decoder.decode(undefined, {stream: false}): flushes a pending sequence.
DecodeFlush(pending) == IF pending THEN <<Replacement>> ELSE <<>>

\* ------------------------------------------------------------ String.trim
RECURSIVE TrimStart(_)
TrimStart(s) == IF s # <<>> /\ Head(s) = Ws THEN TrimStart(Tail(s)) ELSE s

RECURSIVE TrimEnd(_)
TrimEnd(s) ==
  IF s # <<>> /\ s[Len(s)] = Ws THEN TrimEnd(SubSeq(s, 1, Len(s) - 1)) ELSE s

Trim(s) == TrimEnd(TrimStart(s))

\* startsWith("{"): the first character of the text is the brace.
StartsWithBrace(s) == s # <<>> /\ Head(s) = "{"

\* -------------------------------------------------------------- JSON.parse
\* The value JSON.parse returns, or throws = TRUE for a SyntaxError.
\* JSON text here is: ws value ws, with value an object holding at most one
\* member (ErrX or ErrEmpty), the literal null, or a number (digits).
JSONThrows == [throws |-> TRUE, type |-> "none", hasError |-> FALSE, error |-> <<>>]

JSONValue(type, hasError, error) ==
  [throws |-> FALSE, type |-> type, hasError |-> hasError, error |-> error]

JSONMember(inner) ==
  IF inner = <<>> THEN JSONValue("object", FALSE, <<>>)
  ELSE IF inner = <<ErrX>> THEN JSONValue("object", TRUE, <<"X">>)
  ELSE IF inner = <<ErrEmpty>> THEN JSONValue("object", TRUE, <<>>)
  ELSE JSONThrows

JSONParseCore(core) ==
  IF core = <<NullLit>> THEN JSONValue("null", FALSE, <<>>)
  ELSE IF core # <<>> /\ \A i \in DOMAIN core : core[i] = Digit
       THEN JSONValue("number", FALSE, <<>>)
  ELSE IF Len(core) >= 2 /\ core[1] = "{" /\ core[Len(core)] = "}"
       THEN JSONMember(Trim(SubSeq(core, 2, Len(core) - 1)))
  ELSE JSONThrows

JSONParse(text) == JSONParseCore(Trim(text))

\* potentialError && potentialError.error : a non-null value whose error
\* property is truthy (a non-empty string).
TruthyError(v) == ~v.throws /\ v.type # "null" /\ v.hasError /\ v.error # <<>>

\* ---------------------------------------------------------------- content
\* `Error from ${selectedModel}: ${...}`
ErrorFrom(model, detail) == <<"Error from ", model, ": ">> \o detail

\* `Network or streaming error with ${selectedModel}: ${error.message || 'Unknown error'}.`
NetworkError(model, message) ==
  <<"Network or streaming error with ", model, ": ">>
    \o (IF message # <<>> THEN message ELSE <<"Unknown error">>) \o <<".">>

NullBodyMessage == <<"Response body is null, streaming not possible.">>

\* error.message of a rejected fetch or read: absent/empty, or some text.
FaultMessages == {<<>>, <<"Failed to fetch">>}

\* ------------------------------------------------------------------ inputs
Inputs == {<<>>, <<Ws>>, <<"H", "i">>}

StatusText == <<"Internal Server Error">>

\* Bodies of a non-success response: JSON with a non-empty error, JSON with
\* an empty error, JSON without error, JSON null, a JSON number, plain text,
\* nothing.
HttpBodies ==
  { <<"{", ErrX, "}">>, <<"{", ErrEmpty, "}">>, <<"{", "}">>, <<NullLit>>,
    <<Digit>>, <<"oops">>, <<>> }

NoResponse == [ok |-> TRUE, statusText |-> <<>>, body |-> <<>>, hasBody |-> FALSE]

\* Non-empty byte sequences of length at most n.
ChunksUpTo(n) == UNION { [1..k -> Bytes] : k \in 1..n }

\* ---------------------------------------------------------- route: values
\* Number of items (fragments) a provider stream yields while the consumer
\* is attached, and the length of a request's message list.
MaxFragments == 3
MaxMessages == 2

\* Length of a message list given to transformMessagesForGemini alone.
MaxTransform == 3

\* encoder.encode(text): UTF-8, two bytes for EAcute.
RECURSIVE Encode(_)
Encode(text) ==
  IF text = <<>> THEN <<>>
  ELSE (IF Head(text) = EAcute THEN <<LeadByte, ContByte>> ELSE <<Head(text)>>)
         \o Encode(Tail(text))

\* The text of a fragment a provider stream yields (delta.content, text()).
Fragments == {<<>>, <<Ws>>, <<Digit>>, <<Ws, EAcute>>}

\* JSON.stringify({ error: ... }) of the in-band error chunk.
ErrorJson == <<"{", ErrX, "}">>

\* Request bodies: text that is not JSON, a JSON object without messages,
\* or a JSON object with a list of messages.
RequestMessages ==
  [role : {"user", "assistant"}, content : {<<"Hi">>}]

MessageLists == UNION { [1..k -> RequestMessages] : k \in 0..MaxMessages }

Requests ==
  {[json |-> FALSE, hasMessages |-> FALSE, messages |-> <<>>],
   [json |-> TRUE, hasMessages |-> FALSE, messages |-> <<>>]}
    \cup {[json |-> TRUE, hasMessages |-> TRUE, messages |-> m] :
            m \in MessageLists}

\* transformMessagesForGemini: the history, the last user message, or the
\* message of the Error it throws.
\* A role mapping that keeps every role other than assistant as it is.
GeminiRoleKeep(role) == IF role = "assistant" THEN "model" ELSE role

GeminiRole(role) == IF role = "assistant" THEN "model" ELSE "user"

TransformThrown(message) ==
  [throws |-> TRUE, message |-> message, history |-> <<>>,
   lastUserMessage |-> <<>>]

transformMessagesForGemini(msgs) ==
  LET n == Len(msgs) IN
    IF n = 0 THEN TransformThrown("Message list cannot be empty.")
    ELSE IF GeminiRole(msgs[n].role) # "user"
         THEN TransformThrown("Last message must be from the user for Gemini API.")
    ELSE IF msgs[n].content = <<>> /\ msgs[n].role # "user"
         THEN TransformThrown("Could not determine last user message.")
    ELSE [throws |-> FALSE, message |-> "",
          history |-> [i \in 1..(n - 1) |->
                         [role |-> GeminiRole(msgs[i].role),
                          text |-> msgs[i].content]],
          lastUserMessage |-> msgs[n].content]

\* transformMessagesForGemini has not been applied.
NotTransformed ==
  [throws |-> FALSE, message |-> "", history |-> <<>>,
   lastUserMessage |-> <<>>]

\* Message lists for transformMessagesForGemini alone: any role, content
\* empty or not.
TransformMessages ==
  [role : {"user", "assistant", "system"}, content : {<<>>, <<"Hi">>}]

TransformLists == UNION { [1..k -> TransformMessages] : k \in 0..MaxTransform }

\* The route handler of one request before it has run.  phase is where POST
\* stands: "received", "calling" (the upstream call is awaited), "responded"
\* (a JSON response was returned), "streaming" (the streaming response was
\* returned and start() iterates the provider stream), "ended" (start() has
\* returned or thrown, which ends the iteration of the provider stream).
\* state, closeRequested, queue and readPending are the ReadableStream and
\* its controller; the other fields after them are history.
NewRoute(provider, request, apiKey) ==
  [provider |-> provider, request |-> request, apiKey |-> apiKey,
   phase |-> "received", status |-> 0, jsonError |-> "",
   clientConstructed |-> FALSE, upstreamCalls |-> 0,
   state |-> "none", closeRequested |-> FALSE, queue |-> <<>>,
   readPending |-> FALSE, thrown |-> FALSE,
   fragments |-> <<>>, blocked |-> FALSE, upstreamThrew |-> FALSE,
   enqueued |-> <<>>, delivered |-> <<>>, readEnd |-> "none",
   closeCalls |-> 0, badClose |-> FALSE, startRejected |-> FALSE,
   cancelled |-> FALSE, pulledAfterCancel |-> FALSE, tick |-> FALSE,
   transformed |-> NotTransformed]

\* No request is being served.
NoRoute ==
  [NewRoute("openai",
            [json |-> TRUE, hasMessages |-> FALSE, messages |-> <<>>], FALSE)
     EXCEPT !.phase = "none"]

\* ReadableStreamDefaultControllerCanCloseOrEnqueue
CanCloseOrEnqueue(r) == ~r.closeRequested /\ r.state = "readable"

\* controller.enqueue(chunk): throws on a stream that is closed, closing or
\* errored; hands the chunk to a pending read, or queues it.
Enqueue(r, chunk) ==
  IF ~CanCloseOrEnqueue(r) THEN [r EXCEPT !.thrown = TRUE]
  ELSE IF r.readPending
       THEN [r EXCEPT !.readPending = FALSE,
                      !.delivered = Append(@, chunk),
                      !.enqueued = Append(@, chunk), !.thrown = FALSE]
       ELSE [r EXCEPT !.queue = Append(@, chunk),
                      !.enqueued = Append(@, chunk), !.thrown = FALSE]

\* controller.close(): throws on a stream that is closed, closing or
\* errored; closes at once when the queue is empty (a pending read then
\* resolves with done), else when the queue has been read.
Close(r) ==
  IF ~CanCloseOrEnqueue(r)
  THEN [r EXCEPT !.thrown = TRUE, !.closeCalls = @ + 1, !.badClose = TRUE]
  ELSE IF r.queue = <<>>
       THEN [r EXCEPT !.state = "closed", !.closeRequested = TRUE,
                      !.readEnd = IF r.readPending THEN "done" ELSE @,
                      !.readPending = FALSE,
                      !.closeCalls = @ + 1, !.thrown = FALSE]
       ELSE [r EXCEPT !.closeRequested = TRUE,
                      !.closeCalls = @ + 1, !.thrown = FALSE]

\* The promise of start() rejects: the stream is errored unless it is no
\* longer readable; an errored stream drops its queue and rejects a
\* pending read.
StartRejects(r) ==
  IF r.state # "readable"
  THEN [r EXCEPT !.startRejected = TRUE, !.thrown = FALSE]
  ELSE [r EXCEPT !.startRejected = TRUE, !.thrown = FALSE,
                 !.state = "errored", !.queue = <<>>,
                 !.readEnd = IF r.readPending THEN "error" ELSE @,
                 !.readPending = FALSE]

\* ------------------------------------------------------------------- state
VARIABLES
  inputValue,          \* useState('')
  messages,            \* useState<Message[]>([])
  isLoading,           \* useState(false)
  selectedModel,       \* useState<Model>('openai')
  pc,                  \* where handleSendMessage is suspended
  reqModel,            \* selectedModel captured by the running handler
  placeholder,         \* identity of assistantMessagePlaceholder
  requestBody,         \* currentMessages, as put in the request body
  response,            \* the Response fetch resolved with
  bodyUsed,            \* Response.bodyUsed
  errorContent,        \* let errorContent
  accumulatedContent,  \* let accumulatedContent
  firstChunk,          \* let firstChunk
  pending,             \* the TextDecoder's pending incomplete sequence
  nextId,              \* next unused object identity
  chunks,              \* history: the chunks the reader delivered
  outcome,             \* history: how the handler ended
  readerObtained,      \* history: response.body.getReader() was called
  reads,               \* history: number of reader.read() calls issued
  jsonErrSeen,         \* history: error value of the first accumulated
                       \* buffer that was JSON with an error field, in << >>
  sends,               \* history: non-blank sends so far
  events,              \* history: input events so far
  lastPass,            \* history: the last pass of the read loop: whether it
                       \* was the first, whether its buffer began with a
                       \* brace, whether JSON.parse was attempted
  route                \* the route handler serving one request: its inputs,
                       \* its response and its ReadableStream

clientVars ==
  << inputValue, messages, isLoading, selectedModel, pc, reqModel, placeholder,
     requestBody, response, bodyUsed, errorContent, accumulatedContent,
     firstChunk, pending, nextId, chunks, outcome, readerObtained, reads,
     jsonErrSeen, sends, events, lastPass >>

vars == << clientVars, route >>

reactVars == << inputValue, messages, isLoading, selectedModel >>
localVars ==
  << reqModel, placeholder, requestBody, response, bodyUsed, errorContent,
     accumulatedContent, firstChunk, pending >>
historyVars ==
  << chunks, outcome, readerObtained, reads, jsonErrSeen, sends, events,
     lastPass >>

Message(id, role, content, isError) ==
  [id |-> id, role |-> role, content |-> content, isError |-> isError]

\* JSON.stringify of a Message: its fields, not its identity.
Wire(m) == [role |-> m.role, content |-> m.content, isError |-> m.isError]

\* A request body that leaves out the Messages marked as error.
CurrentMessagesWithoutErrors(msgs, newUserMessage) ==
  LET kept == SelectSeq(msgs, LAMBDA m : ~m.isError) IN
    [i \in DOMAIN kept |-> Wire(kept[i])] \o << Wire(newUserMessage) >>

\* const currentMessages = [...messages, newUserMessage], as serialized by
\* JSON.stringify({ messages: currentMessages }).
CurrentMessages(msgs, newUserMessage) ==
  [i \in DOMAIN msgs |-> Wire(msgs[i])] \o << Wire(newUserMessage) >>

\* An update that takes the placeholder out of the list when it carries an
\* error, instead of replacing it.
UpdateOrRemove(msgs, ph, content, isErr, fresh) ==
  IF isErr THEN SelectSeq(msgs, LAMBDA m : m.id # ph)
  ELSE [i \in DOMAIN msgs |->
          IF msgs[i].id = ph
          THEN [msgs[i] EXCEPT !.id = fresh, !.content = content,
                               !.isError = isErr]
          ELSE msgs[i]]

\* A map that picks the Messages to replace by role instead of by identity.
UpdateByRole(msgs, ph, content, isErr, fresh) ==
  [i \in DOMAIN msgs |->
     IF msgs[i].role = "assistant"
     THEN [msgs[i] EXCEPT !.id = fresh, !.content = content, !.isError = isErr]
     ELSE msgs[i]]

\* prevMessages.map(msg => msg === assistantMessagePlaceholder
\*                          ? { ...msg, content, isError } : msg)
\* The object literal is a new object: it gets the fresh identity.
UpdatePlaceholder(msgs, ph, content, isErr, fresh) ==
  [i \in DOMAIN msgs |->
     IF msgs[i].id = ph
     THEN [msgs[i] EXCEPT !.id = fresh, !.content = content, !.isError = isErr]
     ELSE msgs[i]]

\* No pass of the read loop has run.
NoPass == [first |-> FALSE, brace |-> FALSE, attempted |-> FALSE]

\* The component after its first render.
ClientInit ==
  /\ inputValue = <<>>
  /\ messages = <<>>
  /\ isLoading = FALSE
  /\ selectedModel = "openai"
  /\ pc = "idle"
  /\ reqModel = "openai"
  /\ placeholder = 0
  /\ requestBody = <<>>
  /\ response = NoResponse
  /\ bodyUsed = FALSE
  /\ errorContent = <<>>
  /\ accumulatedContent = <<>>
  /\ firstChunk = TRUE
  /\ pending = FALSE
  /\ nextId = 1
  /\ chunks = <<>>
  /\ outcome = "none"
  /\ readerObtained = FALSE
  /\ reads = 0
  /\ jsonErrSeen = <<>>
  /\ sends = 0
  /\ events = 0
  /\ lastPass = NoPass

Init == ClientInit /\ route = NoRoute

\* ----------------------------------------------------------------- actions
\* An input, a send button and an Enter key that are never disabled.
NeverDisabled == FALSE

\* disabled={isLoading} of the input and of the send button, and
\* e.key === 'Enter' && !isLoading && handleSendMessage().
Disabled == isLoading

handleInputChange(v) ==
  /\ ~Disabled                        \* the input is disabled while loading
  /\ events < MaxEvents
  /\ v # inputValue
  /\ inputValue' = v
  /\ UNCHANGED << messages, isLoading, selectedModel, pc, nextId >>
  /\ UNCHANGED << localVars, historyVars >>
  /\ UNCHANGED route

handleModelChange(model) ==
  /\ model # selectedModel
  /\ events < MaxEvents
  /\ selectedModel' = model
  /\ events' = events + 1
  /\ UNCHANGED << inputValue, messages, isLoading, pc, nextId, localVars >>
  /\ UNCHANGED << chunks, outcome, readerObtained, reads, jsonErrSeen, sends >>
  /\ UNCHANGED << lastPass, route >>

\* handleSendMessage up to its first await (the fetch).  The handler's
\* locals below are those of one invocation: Disabled keeps a second
\* one from starting while the first is suspended (C20).
handleSendMessage ==
  /\ ~Disabled                        \* button disabled / Enter ignored
  /\ IF Trim(inputValue) = <<>>
     THEN UNCHANGED vars
     ELSE /\ events < MaxEvents
          /\ messages' = messages \o
               << Message(nextId, "user", inputValue, FALSE),
                  Message(nextId + 1, "assistant", <<>>, FALSE) >>
          /\ requestBody' = CurrentMessages(messages,
                               Message(nextId, "user", inputValue, FALSE))
          /\ inputValue' = <<>>
          /\ isLoading' = TRUE
          /\ reqModel' = selectedModel
          /\ placeholder' = nextId + 1
          /\ nextId' = nextId + 2
          /\ pc' = "fetch"
          /\ response' = NoResponse
          /\ bodyUsed' = FALSE
          /\ errorContent' = <<>>
          /\ accumulatedContent' = <<>>
          /\ firstChunk' = TRUE
          /\ pending' = FALSE
          /\ chunks' = <<>>
          /\ outcome' = "none"
          /\ readerObtained' = FALSE
          /\ reads' = 0
          /\ jsonErrSeen' = <<>>
          /\ lastPass' = NoPass
          /\ sends' = sends + 1
          /\ events' = events + 1
          /\ UNCHANGED selectedModel
  /\ UNCHANGED route

\* The identity counter after a map that built a new object for a match.
AfterUpdate(msgs, ph, fresh) ==
  IF \E i \in DOMAIN msgs : msgs[i].id = ph THEN fresh + 1 ELSE fresh

\* A catch block that is not followed by a finally block.
CatchWithoutFinally(message, how) ==
  /\ messages' = UpdatePlaceholder(messages, placeholder,
                                   NetworkError(reqModel, message), TRUE, nextId)
  /\ nextId' = AfterUpdate(messages, placeholder, nextId)
  /\ pc' = "done"
  /\ outcome' = how
  /\ UNCHANGED isLoading

\* The catch block followed by the finally block.
CatchFinally(message, how) ==
  /\ messages' = UpdatePlaceholder(messages, placeholder,
                                   NetworkError(reqModel, message), TRUE, nextId)
  /\ nextId' = AfterUpdate(messages, placeholder, nextId)
  /\ isLoading' = FALSE
  /\ pc' = "done"
  /\ outcome' = how

\* await fetch(...) rejects.
FetchReject(message) ==
  /\ pc = "fetch"
  /\ CatchFinally(message, "fetchReject")
  /\ UNCHANGED << inputValue, selectedModel, localVars >>
  /\ UNCHANGED << chunks, readerObtained, reads, jsonErrSeen, sends, events >>
  /\ UNCHANGED << lastPass, route >>

\* await fetch(...) resolves with a non-success response: errorContent gets
\* the status text and response.json() is awaited.
FetchResolveNotOk(body) ==
  /\ pc = "fetch"
  /\ response' = [ok |-> FALSE, statusText |-> StatusText, body |-> body,
                  hasBody |-> TRUE]
  /\ errorContent' = ErrorFrom(reqModel, StatusText)
  /\ bodyUsed' = TRUE                 \* json() starts consuming the body
  /\ pc' = "errorJson"
  /\ UNCHANGED << reactVars, nextId, historyVars >>
  /\ UNCHANGED << reqModel, placeholder, requestBody, accumulatedContent,
                  firstChunk, pending >>
  /\ UNCHANGED route

\* The !response.ok branch without its return: after the update the handler
\* goes on to the body check, getReader() and the first reader.read().
HttpErrorFallThrough(content) ==
  /\ errorContent' = content
  /\ messages' = UpdatePlaceholder(messages, placeholder, content, TRUE, nextId)
  /\ nextId' = AfterUpdate(messages, placeholder, nextId)
  /\ readerObtained' = TRUE
  /\ accumulatedContent' = <<>>
  /\ firstChunk' = TRUE
  /\ pending' = FALSE
  /\ reads' = 1
  /\ pc' = "read"
  /\ UNCHANGED << inputValue, selectedModel, isLoading >>
  /\ UNCHANGED << reqModel, placeholder, requestBody, response >>
  /\ UNCHANGED << chunks, outcome, jsonErrSeen, sends, events >>
  /\ UNCHANGED << lastPass, route >>

\* The placeholder update of the !response.ok branch, the return and finally.
HttpErrorFinish(content) ==
  /\ errorContent' = content
  /\ messages' = UpdatePlaceholder(messages, placeholder, content, TRUE, nextId)
  /\ nextId' = AfterUpdate(messages, placeholder, nextId)
  /\ isLoading' = FALSE
  /\ pc' = "done"
  /\ outcome' = "httpError"
  /\ UNCHANGED << inputValue, selectedModel >>
  /\ UNCHANGED << reqModel, placeholder, requestBody, response,
                  accumulatedContent, firstChunk, pending >>
  /\ UNCHANGED << chunks, readerObtained, reads, jsonErrSeen, sends, events >>
  /\ UNCHANGED << lastPass, route >>

\* response.json() settles.  It rejects on a body that is not JSON; reading
\* errorData.error of null throws as well.  Both land in catch (e), which
\* awaits response.text().
ErrorJsonSettle ==
  /\ pc = "errorJson"
  /\ LET errorData == JSONParse(response.body) IN
       IF errorData.throws \/ errorData.type = "null"
       THEN /\ pc' = "errorText"
            /\ UNCHANGED << reactVars, nextId, localVars, historyVars, route >>
       ELSE /\ HttpErrorFinish(ErrorFrom(reqModel,
                 IF errorData.hasError /\ errorData.error # <<>>
                 THEN errorData.error ELSE response.statusText))
            /\ UNCHANGED bodyUsed

\* Body.text(): rejects (TypeError) when the body was already used.
ResponseText(body, used) == [rejects |-> used, text |-> body]

\* response.text() settles: its text becomes the error content, or on a
\* rejection (catch (e2)) the status text already set stays.
ErrorTextSettle ==
  /\ pc = "errorText"
  /\ LET t == ResponseText(response.body, bodyUsed) IN
       HttpErrorFinish(IF t.rejects THEN errorContent
                       ELSE ErrorFrom(reqModel, t.text))
  /\ UNCHANGED bodyUsed

\* await fetch(...) resolves with a success response without body: the
\* throw lands in catch.
FetchResolveNullBody ==
  /\ pc = "fetch"
  /\ response' = [ok |-> TRUE, statusText |-> <<"OK">>, body |-> <<>>,
                  hasBody |-> FALSE]
  /\ CatchFinally(NullBodyMessage, "nullBody")
  /\ UNCHANGED << inputValue, selectedModel >>
  /\ UNCHANGED << reqModel, placeholder, requestBody, bodyUsed, errorContent,
                  accumulatedContent, firstChunk, pending >>
  /\ UNCHANGED << chunks, readerObtained, reads, jsonErrSeen, sends, events >>
  /\ UNCHANGED << lastPass, route >>

\* await fetch(...) resolves with a success response with a body stream:
\* getReader(), new TextDecoder(), and the first reader.read() is awaited.
FetchResolveStream ==
  /\ pc = "fetch"
  /\ response' = [ok |-> TRUE, statusText |-> <<"OK">>, body |-> <<>>,
                  hasBody |-> TRUE]
  /\ readerObtained' = TRUE
  /\ accumulatedContent' = <<>>
  /\ firstChunk' = TRUE
  /\ pending' = FALSE
  /\ reads' = 1
  /\ pc' = "read"
  /\ UNCHANGED << reactVars, nextId >>
  /\ UNCHANGED << reqModel, placeholder, requestBody, bodyUsed, errorContent >>
  /\ UNCHANGED << chunks, outcome, jsonErrSeen, sends, events >>
  /\ UNCHANGED << lastPass, route >>

\* A detection that looks for an error object anywhere in the buffer.
ErrorDetectedAnywhere(buffer, first) ==
  \E i \in 1..Len(buffer) :
    TruthyError(JSONParse(SubSeq(buffer, i, Len(buffer))))

\* A guard that lets a parse happen only behind a brace.
ParseOnlyBehindBrace(buffer, first) == StartsWithBrace(Trim(buffer))

\* if (firstChunk || accumulatedContent.trim().startsWith("{")): the guard
\* of the try block that calls JSON.parse.
ParseAttempted(buffer, first) == first \/ StartsWithBrace(Trim(buffer))

\* The guard and test of the in-band error detection on the buffer.
ErrorDetected(buffer, first) ==
  /\ ParseAttempted(buffer, first)
  /\ TruthyError(JSONParse(buffer))

\* History: the buffer is JSON with an error field (of any value).
NoteJsonError(buffer) ==
  LET v == JSONParse(buffer) IN
    IF jsonErrSeen = <<>> /\ ~v.throws /\ v.hasError
    THEN << v.error >> ELSE jsonErrSeen

\* A detection branch without its return: the loop goes on to the next read.
ErrorNoReturn(buffer) ==
  /\ messages' = UpdatePlaceholder(messages, placeholder,
       ErrorFrom(reqModel, JSONParse(buffer).error), TRUE, nextId)
  /\ firstChunk' = FALSE
  /\ reads' = reads + 1
  /\ outcome' = "inband"
  /\ UNCHANGED << isLoading, pc >>

\* The detection branch: the placeholder becomes the error Message, return,
\* then finally.
ErrorReturn(buffer) ==
  /\ messages' = UpdatePlaceholder(messages, placeholder,
       ErrorFrom(reqModel, JSONParse(buffer).error), TRUE, nextId)
  /\ isLoading' = FALSE
  /\ pc' = "done"
  /\ outcome' = "inband"
  /\ UNCHANGED << firstChunk, reads >>

\* reader.read() resolves with a chunk: one pass of the while loop.
ReadChunk(chunk) ==
  /\ pc = "read"
  /\ events + Len(chunk) <= MaxEvents
  /\ LET d == DecodeStream(chunk, pending)
         buffer == accumulatedContent \o d.text
     IN /\ accumulatedContent' = buffer
        /\ pending' = d.pending
        /\ jsonErrSeen' = NoteJsonError(buffer)
        /\ lastPass' = [first |-> firstChunk,
                        brace |-> StartsWithBrace(TrimStart(buffer)),
                        attempted |-> ParseAttempted(buffer, firstChunk)]
        /\ IF ErrorDetected(buffer, firstChunk)
           THEN ErrorReturn(buffer)
           ELSE /\ firstChunk' = FALSE
                /\ messages' = UpdatePlaceholder(messages, placeholder,
                                                 buffer, FALSE, nextId)
                /\ reads' = reads + 1           \* the next reader.read()
                /\ UNCHANGED << isLoading, pc, outcome >>
  /\ nextId' = AfterUpdate(messages, placeholder, nextId)
  /\ chunks' = Append(chunks, chunk)
  /\ events' = events + Len(chunk)
  /\ UNCHANGED << inputValue, selectedModel, readerObtained, sends >>
  /\ UNCHANGED << reqModel, placeholder, requestBody, response, bodyUsed,
                  errorContent >>
  /\ UNCHANGED route

\* reader.read() resolves with done: break, the final decoder flush, finally.
ReadDone ==
  /\ pc = "read"
  /\ LET finalDecodedContent == DecodeFlush(pending) IN
       IF finalDecodedContent # <<>>
       THEN /\ accumulatedContent' = accumulatedContent \o finalDecodedContent
            /\ messages' = UpdatePlaceholder(messages, placeholder,
                 accumulatedContent \o finalDecodedContent, FALSE, nextId)
            /\ nextId' = AfterUpdate(messages, placeholder, nextId)
       ELSE UNCHANGED << accumulatedContent, messages, nextId >>
  /\ pending' = FALSE
  /\ isLoading' = FALSE
  /\ pc' = "done"
  /\ outcome' = "normal"
  /\ UNCHANGED << inputValue, selectedModel >>
  /\ UNCHANGED << reqModel, placeholder, requestBody, response, bodyUsed,
                  errorContent, firstChunk >>
  /\ UNCHANGED << chunks, readerObtained, reads, jsonErrSeen, sends, events >>
  /\ UNCHANGED << lastPass, route >>

\* reader.read() rejects: catch, finally.
ReadReject(message) ==
  /\ pc = "read"
  /\ CatchFinally(message, "readReject")
  /\ UNCHANGED << inputValue, selectedModel, localVars >>
  /\ UNCHANGED << chunks, readerObtained, reads, jsonErrSeen, sends, events >>
  /\ UNCHANGED << lastPass, route >>

\* reader.read() resolves with some chunk the event bound still allows.
ReadSomeChunk ==
  /\ pc = "read"
  /\ \E chunk \in ChunksUpTo(MaxEvents - events) : ReadChunk(chunk)

Next ==
  \/ \E v \in Inputs : handleInputChange(v)
  \/ \E model \in Models : handleModelChange(model)
  \/ handleSendMessage
  \/ \E message \in FaultMessages : FetchReject(message)
  \/ \E body \in HttpBodies : FetchResolveNotOk(body)
  \/ ErrorJsonSettle
  \/ ErrorTextSettle
  \/ FetchResolveNullBody
  \/ FetchResolveStream
  \/ ReadSomeChunk
  \/ ReadDone
  \/ \E message \in FaultMessages : ReadReject(message)

Spec == Init /\ [][Next]_vars

\* An awaited promise of the handler settles: the fetch, response.json(),
\* response.text() or a reader.read().
Settle ==
  \/ \E message \in FaultMessages : FetchReject(message)
  \/ \E body \in HttpBodies : FetchResolveNotOk(body)
  \/ ErrorJsonSettle
  \/ ErrorTextSettle
  \/ FetchResolveNullBody
  \/ FetchResolveStream
  \/ ReadSomeChunk
  \/ ReadDone
  \/ \E message \in FaultMessages : ReadReject(message)

\* The client when every promise the handler awaits eventually settles.
FairSpec == Spec /\ WF_vars(Settle)

\* ------------------------------------------------------------ route: POST
\* NextResponse.json({ error }, { status })
JsonResponse(r, status, error) ==
  [r EXCEPT !.phase = "responded", !.status = status, !.jsonError = error]

\* new OpenAI(...) / new GoogleGenerativeAI(...), then the upstream call is
\* made and awaited.
CallUpstream(r) ==
  [r EXCEPT !.clientConstructed = TRUE, !.upstreamCalls = @ + 1,
            !.phase = "calling"]

\* POST of the OpenAI route up to its await of the upstream call.
PostOpenAI(r) ==
  IF ~r.request.json
  THEN JsonResponse(r, 400, "Invalid JSON in request body")
  ELSE IF ~r.request.hasMessages
  THEN JsonResponse(r, 400, "Missing messages in request body")
  ELSE IF ~r.apiKey
  THEN JsonResponse(r, 500, "API key not configured for OpenAI.")
  ELSE CallUpstream(r)

\* The outer catch of the Gemini route for an Error thrown by the transform.
GeminiCatch(r, message) ==
  IF message \in {"Last message must be from the user for Gemini API.",
                  "Could not determine last user message."}
  THEN JsonResponse(r, 400, "Message formatting error for Gemini")
  ELSE JsonResponse(r, 500, message)

\* A POST of the Gemini route that transforms the messages before it looks
\* for the credential.
PostGeminiTransformFirst(r) ==
  IF ~r.request.json
  THEN JsonResponse(r, 400, "Invalid JSON in request body")
  ELSE IF ~r.request.hasMessages \/ r.request.messages = <<>>
  THEN JsonResponse(r, 400, "Missing messages in request body")
  ELSE LET t == transformMessagesForGemini(r.request.messages) IN
    IF t.throws THEN GeminiCatch(r, t.message)
    ELSE IF ~r.apiKey
    THEN JsonResponse(r, 500, "API key not configured for Gemini.")
    ELSE CallUpstream(r)

\* POST of the Gemini route up to its await of the upstream call.
PostGemini(r) ==
  IF ~r.request.json
  THEN JsonResponse(r, 400, "Invalid JSON in request body")
  ELSE IF ~r.request.hasMessages \/ r.request.messages = <<>>
  THEN JsonResponse(r, 400, "Missing messages in request body")
  ELSE IF ~r.apiKey
  THEN JsonResponse(r, 500, "API key not configured for Gemini.")
  ELSE LET t == transformMessagesForGemini(r.request.messages) IN
    IF t.throws THEN GeminiCatch(r, t.message) ELSE CallUpstream(r)

POST ==
  /\ route.phase = "received"
  /\ route' = IF route.provider = "openai" THEN PostOpenAI(route)
              ELSE PostGemini(route)
  /\ UNCHANGED clientVars

\* The awaited upstream call rejects: the outer catch answers with JSON.
\* An OpenAI API error carries the upstream status, ENOENT gives 503.
UpstreamCallRejects(kind) ==
  /\ route.phase = "calling"
  /\ route' =
       IF route.provider = "openai" /\ kind = "response"
       THEN JsonResponse(route, 429, "OpenAI API error")
       ELSE IF route.provider = "openai" /\ kind = "ENOENT"
       THEN JsonResponse(route, 503, "Network error communicating with OpenAI")
       ELSE JsonResponse(route, 500, "Internal Server Error before streaming")
  /\ UNCHANGED clientVars

\* The awaited upstream call resolves: new ReadableStream(...) runs start()
\* up to its first await and the streaming response is returned.
UpstreamCallResolves ==
  /\ route.phase = "calling"
  /\ route' = [route EXCEPT !.phase = "streaming", !.status = 200,
                            !.state = "readable"]
  /\ UNCHANGED clientVars

\* ----------------------------------------------------- route: the producer
\* if (content) / if (content && content.trim())
Keep(provider, content) ==
  IF provider = "openai" THEN content # <<>>
  ELSE content # <<>> /\ Trim(content) # <<>>

\* finally { controller.close(); } and the end of start(): a throw of
\* close() rejects the promise of start().
ProducerFinally(r) ==
  LET c == Close(r) IN
    [(IF c.thrown THEN StartRejects(c) ELSE c) EXCEPT !.phase = "ended"]

\* A catch block that only logs: no error chunk, then finally.
ProducerCatchSilent(r) == ProducerFinally(r)

\* catch (error): the error chunk is enqueued inside its own try/catch,
\* then finally.
ProducerCatch(r) ==
  ProducerFinally([Enqueue(r, ErrorJson) EXCEPT !.thrown = FALSE])

\* History of one pull of the provider stream.  After a cancel the pulls
\* are not listed: tick alternates with each of them.
Pulled(r, item) ==
  IF r.cancelled
  THEN [r EXCEPT !.pulledAfterCancel = TRUE, !.tick = ~@]
  ELSE [r EXCEPT !.fragments = Append(@, item)]

\* The provider stream yields a fragment: one pass of the for await loop.
UpstreamYields(content) ==
  /\ route.phase = "streaming"
  /\ route.cancelled \/ Len(route.fragments) < MaxFragments
  /\ route' =
       LET r == Pulled(route, content) IN
         IF Keep(r.provider, content)
         THEN LET e == Enqueue(r, Encode(content)) IN
                IF e.thrown THEN ProducerCatch(e) ELSE e
         ELSE r
  /\ UNCHANGED clientVars

\* The Gemini stream yields a chunk with promptFeedback.blockReason: the
\* error chunk, close(), return, then finally.
UpstreamBlocks ==
  /\ route.phase = "streaming"
  /\ route.provider = "gemini"
  /\ route' =
       LET r == [route EXCEPT !.blocked = TRUE]
           e == Enqueue(r, ErrorJson)
           c == Close(e)
       IN IF e.thrown THEN ProducerCatch(e)
          ELSE IF c.thrown THEN ProducerCatch(c)
          ELSE ProducerFinally(c)
  /\ UNCHANGED clientVars

\* The iteration of the provider stream throws.
UpstreamThrows ==
  /\ route.phase = "streaming"
  /\ route' = ProducerCatch([route EXCEPT !.upstreamThrew = TRUE])
  /\ UNCHANGED clientVars

\* The provider stream ends: the loop is left, then finally.
UpstreamEnds ==
  /\ route.phase = "streaming"
  /\ route' = ProducerFinally(route)
  /\ UNCHANGED clientVars

\* ----------------------------------------------------- route: the consumer
\* The reader of the response body issues a read: it gets the head of the
\* queue, the end of a closed stream, the error of an errored stream, or
\* stays pending.
ConsumerRead ==
  /\ route.state # "none"
  /\ ~route.readPending /\ route.readEnd = "none" /\ ~route.cancelled
  /\ route' =
       IF route.queue # <<>>
       THEN [route EXCEPT
               !.delivered = Append(@, Head(route.queue)),
               !.queue = Tail(@),
               !.state = IF route.closeRequested /\ Tail(route.queue) = <<>>
                         THEN "closed" ELSE @]
       ELSE IF route.state = "closed" THEN [route EXCEPT !.readEnd = "done"]
       ELSE IF route.state = "errored" THEN [route EXCEPT !.readEnd = "error"]
       ELSE [route EXCEPT !.readPending = TRUE]
  /\ UNCHANGED clientVars

\* The consumer cancels a readable stream: the stream is closed, its queue
\* dropped, a pending read resolves with done, and cancel() logs.
ConsumerCancel ==
  /\ route.state = "readable"
  /\ ~route.cancelled
  /\ route' = [route EXCEPT !.cancelled = TRUE, !.state = "closed",
                            !.queue = <<>>,
                            !.readEnd = IF route.readPending THEN "done" ELSE @,
                            !.readPending = FALSE]
  /\ UNCHANGED clientVars

RouteInit ==
  /\ ClientInit
  /\ \E provider \in Models, request \in Requests, apiKey \in BOOLEAN :
       route = NewRoute(provider, request, apiKey)

Producer ==
  \/ \E content \in Fragments : UpstreamYields(content)
  \/ UpstreamBlocks
  \/ UpstreamThrows
  \/ UpstreamEnds

RouteNext ==
  \/ POST
  \/ \E kind \in {"response", "ENOENT", "other"} : UpstreamCallRejects(kind)
  \/ UpstreamCallResolves
  \/ \E content \in Fragments : UpstreamYields(content)
  \/ UpstreamBlocks
  \/ UpstreamThrows
  \/ UpstreamEnds
  \/ ConsumerRead
  \/ ConsumerCancel

RouteSpec == RouteInit /\ [][RouteNext]_vars

\* The event loop runs the producer as long as the provider stream settles.
RouteFairSpec == RouteSpec /\ WF_vars(Producer)

\* ------------------------------------------- transformMessagesForGemini
\* The function applied to a message list, outside of POST.
Transform ==
  /\ route.phase = "received"
  /\ route' = [route EXCEPT
                 !.phase = "transformed",
                 !.transformed = transformMessagesForGemini(route.request.messages)]
  /\ UNCHANGED clientVars

TransformInit ==
  /\ ClientInit
  /\ \E m \in TransformLists :
       route = NewRoute("gemini",
                        [json |-> TRUE, hasMessages |-> TRUE, messages |-> m],
                        TRUE)

TransformNext == Transform

TransformSpec == TransformInit /\ [][TransformNext]_vars

\* ------------------------------------------------------------------ claims
\* The assistant Message of the running or last request: each send appends
\* the user Message and the placeholder, so it is the last element.
ReqMsg == messages[Len(messages)]

RECURSIVE Flatten(_)
Flatten(cs) == IF cs = <<>> THEN <<>> ELSE Head(cs) \o Flatten(Tail(cs))

\* The bytes of the chunks delivered so far, in order.
StreamBytes == Flatten(chunks)

\* The text decoded from the chunks delivered so far.
DecodedSoFar == DecodeStream(StreamBytes, FALSE).text

\* All chunks decoded as UTF-8, the end of the stream included.
DecodedAll ==
  LET r == DecodeStream(StreamBytes, FALSE) IN r.text \o DecodeFlush(r.pending)

Finished == pc = "done"

\* A chunk that by itself is a JSON object with an error field.
IsErrorChunk(chunk) == TruthyError(JSONParse(DecodeStream(chunk, FALSE).text))

ErrorPayload == <<"{", ErrX, "}">>

IsProperPrefix(s, t) == Len(s) < Len(t) /\ s = SubSeq(t, 1, Len(s))

\* C1: when handleSendMessage finishes a stream of content chunks only, the
\* content of the request's assistant Message is the concatenation of all
\* chunks decoded as UTF-8 and isError is false.
C1_Concatenation ==
  (Finished /\ outcome = "normal")
    => (ReqMsg.content = DecodedAll /\ ~ReqMsg.isError)

\* C2: if after some chunk the accumulated buffer was JSON with an error
\* field, the finished request's Message has isError = true and the
\* formatted error string as content.
C2_ErrorPrecedence ==
  (Finished /\ jsonErrSeen # <<>>)
    => (ReqMsg.isError /\ ReqMsg.content = ErrorFrom(reqModel, jsonErrSeen[1]))

\* C3: a rejected fetch, a missing body or a rejected read, also after
\* content chunks, ends with isError = true and the network-error string.
C3_PartialThenAbort ==
  (Finished /\ outcome \in {"fetchReject", "nullBody", "readReject"})
    => /\ ReqMsg.isError
       /\ \E m \in FaultMessages \cup {NullBodyMessage} :
            ReqMsg.content = NetworkError(reqModel, m)

\* C4: every failure path (non-success response, transport fault, a stream
\* that is only an error chunk, content chunks followed by one error chunk)
\* ends with the request's Message marked isError with a description.
C4_EveryFailureMarked ==
  (Finished /\
     \/ outcome \in {"httpError", "fetchReject", "nullBody", "readReject"}
     \/ /\ chunks # <<>>
        /\ IsErrorChunk(chunks[Len(chunks)])
        /\ \A i \in 1..(Len(chunks) - 1) : ~IsErrorChunk(chunks[i]))
    => (ReqMsg.isError /\ ReqMsg.content # <<>>)

\* C5: a stream whose text, left-trimmed, does not begin with "{" never has
\* an error detected (reading never stops early) and, unless a read rejects,
\* its Message never gets isError = true.
C5_NonJsonPrefixSafe ==
  readerObtained =>
    /\ (TrimStart(DecodedSoFar) # <<>> /\ ~StartsWithBrace(TrimStart(DecodedSoFar)))
         => (outcome # "inband" /\ (outcome # "readReject" => ~ReqMsg.isError))
    /\ (outcome = "normal" /\ ~StartsWithBrace(TrimStart(DecodedAll)))
         => ~ReqMsg.isError

C5_Witness ==
  /\ Finished /\ outcome = "normal"
  /\ Len(chunks) >= 2
  /\ DecodedAll = <<Digit, "{", ErrX, "}">>

\* C6: with the error payload split over several chunks, a chunk that leaves
\* the payload incomplete shows the buffer as content with isError = false;
\* the chunk that completes it ends reading with the Message marked as error
\* with the formatted error string.
C6_FragmentedError ==
  /\ (pc = "read" /\ chunks # <<>> /\ IsProperPrefix(StreamBytes, ErrorPayload))
       => (~ReqMsg.isError /\ ReqMsg.content = StreamBytes)
  /\ (Len(chunks) >= 2 /\ StreamBytes = ErrorPayload)
       => /\ Finished /\ outcome = "inband"
          /\ ReqMsg.isError
          /\ ReqMsg.content = ErrorFrom(reqModel, <<"X">>)

\* C7: with a non-success response no reader is obtained and no chunk read
\* is issued; the handler ends with the placeholder's Message set to
\* isError = true and an error content derived from the response.
C7_HttpErrorNoStream ==
  ~response.ok =>
    /\ ~readerObtained
    /\ reads = 0
    /\ pc \in {"errorJson", "errorText", "done"}
    /\ Finished =>
         /\ outcome = "httpError"
         /\ ~isLoading
         /\ ReqMsg.isError
         /\ ReqMsg.content \in
              { ErrorFrom(reqModel, d) :
                  d \in {response.statusText, response.body,
                         JSONParse(response.body).error} }

C7_Witness == Finished /\ outcome = "httpError" /\ ~response.ok /\ ReqMsg.isError

\* C8: for a non-success response the error content is the error field of
\* a JSON body carrying one; for a body that is not JSON it is the body as
\* plain text, and the status text only when there is no body text.
C8_ErrorBodyPreference ==
  (Finished /\ outcome = "httpError") =>
    LET v == JSONParse(response.body) IN
      /\ (~v.throws /\ v.type = "object" /\ v.hasError /\ v.error # <<>>)
           => ReqMsg.content = ErrorFrom(reqModel, v.error)
      /\ (v.throws /\ response.body # <<>>)
           => ReqMsg.content = ErrorFrom(reqModel, response.body)
      /\ (v.throws /\ response.body = <<>>)
           => ReqMsg.content = ErrorFrom(reqModel, response.statusText)

\* C9: once a Message of the conversation has isError = true, no step sets
\* the isError of the Message at that place back to false.
C9_IsErrorMonotonic ==
  [][\A i \in DOMAIN messages :
       messages[i].isError => (i \in DOMAIN messages' /\ messages'[i].isError)]_vars

C9_Witness ==
  /\ Len(messages) = 4
  /\ messages[2].isError
  /\ chunks # <<>>
  /\ selectedModel # reqModel

\* C10: while a request is outstanding exactly one element of the
\* conversation is identical to the placeholder, and after every chunk that
\* does not trigger detection the Message's content is the accumulated text.
C10_PlaceholderIdentified ==
  pc \in {"fetch", "errorJson", "errorText", "read"} =>
    /\ Cardinality({i \in DOMAIN messages : messages[i].id = placeholder}) = 1
    /\ (pc = "read" /\ chunks # <<>>) => ReqMsg.content = accumulatedContent

\* C11: for every upstream behaviour of either route, while the consumer has
\* not cancelled, at most the last enqueued chunk is the JSON error chunk,
\* close is never invoked on a stream that is closed or closing, the
\* stream is never errored, and a finished producer has closed exactly once.
C11_StreamShape ==
  ~route.cancelled =>
    /\ \A i \in DOMAIN route.enqueued :
         route.enqueued[i] = ErrorJson => i = Len(route.enqueued)
    /\ ~route.badClose
    /\ route.state # "errored"
    /\ route.phase = "ended" => route.closeCalls = 1

\* C12: on either route, as long as the provider stream has yielded only
\* text fragments (no block signal, no throw) and the consumer has not
\* cancelled, the enqueued chunks decode to the concatenation of the
\* fragments, whitespace-only and empty fragments included.
C12_AdapterConcatenation ==
  (~route.cancelled /\ ~route.blocked /\ ~route.upstreamThrew) =>
    DecodeStream(Flatten(route.enqueued), FALSE).text = Flatten(route.fragments)

\* The chunks the route enqueues for a list of fragments.
RECURSIVE KeptChunks(_, _)
KeptChunks(provider, fs) ==
  IF fs = <<>> THEN <<>>
  ELSE (IF Keep(provider, Head(fs)) THEN << Encode(Head(fs)) >> ELSE <<>>)
         \o KeptChunks(provider, Tail(fs))

\* C13: when the iteration of the provider stream throws on a stream the
\* consumer has not cancelled, at any position, the enqueued chunks are the
\* content chunks so far followed by exactly one JSON error chunk, the
\* stream is closed once and not errored, the promise of start() is not
\* rejected, and the status stays 200.
C13_UpstreamThrowInBand ==
  (route.upstreamThrew /\ ~route.cancelled) =>
    /\ route.enqueued =
         Append(KeptChunks(route.provider, route.fragments), ErrorJson)
    /\ route.phase = "ended"
    /\ route.closeRequested /\ route.closeCalls = 1
    /\ route.state \in {"readable", "closed"}
    /\ ~route.startRejected
    /\ route.status = 200

\* A throw after content: content chunks, then the error chunk, all read.
C13_Witness ==
  /\ route.upstreamThrew /\ ~route.cancelled
  /\ Len(route.enqueued) >= 2
  /\ route.delivered = route.enqueued
  /\ route.readEnd = "done"

\* The request body is not JSON, has no message list, or has an empty one.
InvalidInput(q) == ~q.json \/ ~q.hasMessages \/ q.messages = <<>>

\* The last message of a non-empty list is not from the user.
LastNotUser(q) ==
  q.json /\ q.hasMessages /\ q.messages # <<>>
    /\ q.messages[Len(q.messages)].role # "user"

\* C14: once POST has run, on both routes a request that is not JSON, has no
\* message list or an empty one, and on the Gemini route (credential
\* present) a request whose last message is not from the user, has been
\* answered with status 400 and a JSON error, with no upstream call and no
\* stream.
C14_ValidationOutOfBand ==
  (/\ route.phase \notin {"none", "received"}
   /\ \/ InvalidInput(route.request)
      \/ route.provider = "gemini" /\ route.apiKey /\ LastNotUser(route.request))
  => /\ route.phase = "responded"
     /\ route.status = 400 /\ route.jsonError # ""
     /\ route.upstreamCalls = 0 /\ ~route.clientConstructed
     /\ route.state = "none"

\* C15: once POST has run, on either route a request with a non-empty
\* message list received without the credential has been answered with
\* status 500 and a JSON error; no client was constructed, no upstream call
\* made, no stream created.  This includes the Gemini request whose last
\* message is not from the user.
C15_ConfigurationOutOfBand ==
  (/\ route.phase \notin {"none", "received"}
   /\ ~InvalidInput(route.request)
   /\ ~route.apiKey)
  => /\ route.phase = "responded"
     /\ route.status = 500 /\ route.jsonError # ""
     /\ ~route.clientConstructed /\ route.upstreamCalls = 0
     /\ route.state = "none" /\ route.enqueued = <<>>

\* The Gemini request with both defects, answered with 500.
C15_Witness ==
  /\ route.provider = "gemini" /\ ~route.apiKey
  /\ LastNotUser(route.request)
  /\ route.phase = "responded" /\ route.status = 500

\* C16: after the consumer has cancelled the stream, the producer eventually
\* stops iterating the provider stream, whatever the provider stream yields.
C16_CancelReleasesUpstream ==
  (route.cancelled /\ route.phase = "streaming") ~> (route.phase = "ended")

\* C17: every send puts in the request body the Messages of the
\* conversation as it stood before the send, in order, error Messages
\* included, followed by the new user Message; the placeholder appended by
\* the same send is not in it.
C17_RequestBody ==
  [][sends' # sends =>
       LET n == Len(messages) IN
         /\ Len(messages') = n + 2
         /\ Len(requestBody') = n + 1
         /\ \A i \in 1..n : requestBody'[i] = Wire(messages[i])
         /\ requestBody'[n + 1] = Wire(messages'[n + 1])
         /\ requestBody'[n + 1].role = "user"
         /\ messages'[n + 2].id = placeholder']_vars

\* A second send after a request that ended with an error Message.
C17_Witness ==
  /\ sends = 2 /\ pc = "fetch"
  /\ Len(requestBody) = 3
  /\ requestBody[2].role = "assistant" /\ requestBody[2].isError

\* C18: once an in-band error has been detected the handler has finished
\* with the loading flag cleared and no read outstanding, and until the next
\* send nothing more is read, no content is written and the decoder is not
\* flushed.
C18_DetectionTerminal ==
  /\ [](outcome = "inband" => (Finished /\ ~isLoading /\ reads = Len(chunks)))
  /\ [][(outcome = "inband" /\ sends' = sends) =>
          UNCHANGED << messages, chunks, reads, accumulatedContent, pending,
                       outcome, isLoading >>]_vars

\* A detection while the decoder holds a pending byte a flush would emit.
C18_Witness == outcome = "inband" /\ Finished /\ pending /\ ReqMsg.isError

\* C19 as stated: a pass of the read loop attempts a JSON parse only if its
\* buffer, with leading whitespace removed, begins with a brace.
C19_ParseOnlyBehindBrace == lastPass.attempted => lastPass.brace

\* C19, amended: a pass of the read loop attempts a JSON parse exactly if
\* it is the first pass or its buffer, with leading whitespace removed,
\* begins with a brace.
C19_ParseGuard ==
  lastPass.attempted <=> (lastPass.first \/ lastPass.brace)

\* A first chunk that does not begin with a brace was parsed, and the loop
\* went on.
C19_Witness ==
  /\ pc = "read" /\ Len(chunks) = 1
  /\ lastPass.first /\ ~lastPass.brace /\ lastPass.attempted

\* A request is outstanding: handleSendMessage is suspended at an await.
Outstanding == pc \notin {"idle", "done"}

\* C20: while a request is outstanding the loading flag is true and no
\* send starts, so one handler at most reads a stream and writes the
\* in-progress Message.
C20_OneOutstanding ==
  /\ [](Outstanding => isLoading)
  /\ [][Outstanding => sends' = sends]_vars

\* A second request is reading its stream, the first having finished.
C20_Witness ==
  /\ Outstanding /\ isLoading /\ pc = "read"
  /\ sends = 2 /\ chunks # <<>>

\* C21: the loading flag is true exactly while a request is outstanding; it
\* is cleared only by a step that ends the handler; and when every awaited
\* promise eventually settles, a loading flag that is true is eventually
\* false (for a stream of no more chunks than the event bound allows).
C21_LoadingLifecycle ==
  /\ [](isLoading <=> Outstanding)
  /\ [][(isLoading /\ ~isLoading') => (pc' = "done" /\ outcome' # "none")]_vars
  /\ (isLoading ~> ~isLoading)

\* A send that ended on the null-body path with the flag cleared.
C21_Witness ==
  Finished /\ ~isLoading /\ outcome = "nullBody" /\ sends = 1 /\ ReqMsg.isError

\* C22: the conversation is, for each send with non-blank input and in send
\* order, one user Message followed by one assistant Message, all distinct
\* objects; a step never removes or reorders a Message nor changes a user
\* Message, and the only step that adds Messages is a send with non-blank
\* input, which adds two.
C22_ConversationStructure ==
  /\ [](/\ Len(messages) = 2 * sends
        /\ \A i \in DOMAIN messages :
             /\ messages[i].role = (IF i % 2 = 1 THEN "user" ELSE "assistant")
             /\ messages[i].role = "user" => Trim(messages[i].content) # <<>>
             /\ \A j \in DOMAIN messages : messages[j].id = messages[i].id => j = i)
  /\ [][/\ Len(messages') >= Len(messages)
        /\ \A i \in DOMAIN messages :
             /\ messages'[i].role = messages[i].role
             /\ messages[i].role = "user" => messages'[i] = messages[i]
        /\ Len(messages') # Len(messages) =>
             (sends' = sends + 1 /\ Len(messages') = Len(messages) + 2)]_vars

\* Two completed sends, the first ended in an error, the second did not.
C22_Witness ==
  /\ Finished /\ sends = 2 /\ Len(messages) = 4
  /\ messages[2].isError /\ ~messages[4].isError /\ messages[4].content # <<>>

\* C23: when a success response's stream ends without a chunk, the handler
\* has finished without error: the last Message is still the placeholder,
\* an assistant Message with empty content and isError false, and the
\* loading flag is cleared.
C23_EmptyStream ==
  (Finished /\ outcome = "normal" /\ chunks = <<>>) =>
    /\ ReqMsg.id = placeholder
    /\ ReqMsg.role = "assistant"
    /\ ReqMsg.content = <<>>
    /\ ~ReqMsg.isError
    /\ ~isLoading
    /\ Len(messages) = 2 * sends

\* A success response whose first read resolved with done.
C23_Witness ==
  /\ Finished /\ outcome = "normal" /\ chunks = <<>>
  /\ response.ok /\ readerObtained /\ reads = 1

\* C24: transformMessagesForGemini applied to a list of n messages: when the
\* last role is user it returns as history the first n-1 messages in order,
\* assistant mapped to model and every other role to user, with their
\* content, and the last content (empty or not) as the current turn; when
\* the last role is assistant it throws the last-message error; on the
\* empty list it throws.
C24_Transform ==
  route.phase = "transformed" =>
    LET q == route.request.messages
        n == Len(q)
        t == route.transformed
    IN /\ n = 0 => t.throws
       /\ (n > 0 /\ q[n].role = "assistant") =>
            (t.throws /\ t.message =
               "Last message must be from the user for Gemini API.")
       /\ (n > 0 /\ q[n].role = "user") =>
            /\ ~t.throws
            /\ Len(t.history) = n - 1
            /\ \A i \in 1..(n - 1) :
                 /\ t.history[i].role =
                      (IF q[i].role = "assistant" THEN "model" ELSE "user")
                 /\ t.history[i].text = q[i].content
            /\ t.lastUserMessage = q[n].content

\* A list of three whose history holds a system and an assistant message
\* and whose last message is an empty user message.
C24_Witness ==
  /\ route.phase = "transformed" /\ ~route.transformed.throws
  /\ Len(route.request.messages) = 3
  /\ route.request.messages[1].role = "system"
  /\ route.request.messages[2].role = "assistant"
  /\ route.request.messages[3] = [role |-> "user", content |-> <<>>]

====
